---------------------------- MODULE Spec2Model ----------------------------
(***************************************************************************)
(* Model of src/render_vector.cpp: the three exported bindings around the  *)
(* RenderVector container (inst/include/RenderVector.h).                    *)
(*                                                                         *)
(* Numbers.  A host number is an R numeric, that is a double.  The model   *)
(* works with the integer-valued doubles, written as integers: they are    *)
(* exact in a double up to 2^53 and exact in a float only while they fit   *)
(* a 24-bit significand, so 16777217 = 2^24 + 1 is a double that is not a  *)
(* float.                                                                  *)
(***************************************************************************)
EXTENDS Integers, Sequences, FiniteSets

\* ------------------------------------------------------------------ bounds
\* Number of create_render_vector calls in a run.
MaxHandles == 2
\* Number of elements of all the vectors of a run together.
MaxCells == 2

\* Consecutive read-backs of one handle that are counted.
MaxReads == 2

\* Width of the significand of an IEEE-754 single (float), hidden bit included.
FloatSignificandBits == 24

\* ------------------------------------------------------------------ inputs
Handles == 1..MaxHandles

\* Element i of the host data handed to create_render_vector.  The first
\* element is a double that has no exact float.
DataElem(i) == IF i = 1 THEN 16777217 ELSE i

\* The host sequences handed to create_render_vector: every length 0..MaxCells.
InputData == { [i \in 1..n |-> DataElem(i)] : n \in 0..MaxCells }

\* The host numbers handed to render_vector_update as `value`: one that is
\* a float (5.0) and one that is a double halfway between the two floats
\* 16777218 and 16777220.
UpdateValues == {5, 16777219}

\* The indices handed to render_vector_update: in range and out of range for
\* every vector length.
Indices == 0..MaxCells

\* ------------------------------------------------- float value (line 19)
RECURSIVE Pow2(_)
Pow2(n) == IF n = 0 THEN 1 ELSE 2 * Pow2(n - 1)

Abs(x) == IF x < 0 THEN -x ELSE x

\* The spacing of the floats around magnitude a: 1 while a fits the
\* significand, doubling with every further binary digit.
RECURSIVE Ulp(_)
Ulp(a) == IF a < Pow2(FloatSignificandBits) THEN 1 ELSE 2 * Ulp(a \div 2)

\* ToFloat with the narrowing left out.
ToFloat_none(x) == x

\* The conversion of a host number to the `float value` parameter and back
\* to the double the container stores: round to nearest float, ties to the
\* even significand.
ToFloat(x) ==
    LET a    == Abs(x)
        q    == Ulp(a)
        lo   == (a \div q) * q
        r    == a - lo
        up   == IF 2 * r > q THEN TRUE
                ELSE IF 2 * r < q THEN FALSE
                ELSE ((lo \div q) % 2) = 1
        m    == IF up THEN lo + q ELSE lo
    IN  IF x < 0 THEN -m ELSE m

\* x is exactly a float: its odd part fits the significand.
RECURSIVE OddPart(_)
OddPart(a) == IF a = 0 \/ a % 2 = 1 THEN a ELSE OddPart(a \div 2)

IsFloat(x) == OddPart(Abs(x)) < Pow2(FloatSignificandBits)

\* ------------------------------------------------------------------- state
VARIABLES
    xptr,      \* xptr[h]: the object handle h owns (an index into objects)
    objects,   \* objects[o]: the contents of RenderVector object o
    orig,      \* orig[h]: the sequence handle h was created from (history)
    written,   \* written[h][i]: {} or {the last host value updated at i} (history)
    ret,       \* <<>> or <<r>>: the result of the last render_vector_data call,
               \*   as the host holds it
    fault,     \* <<>> or <<f>>: the out-of-range access the container received
    raised     \* the binding itself raised an error

vars == <<xptr, objects, orig, written, ret, fault, raised>>

\* --------------------------------------------- RenderVector (the container)
\* RenderVector(data): the contents are initialised from data.
RenderVector_new(data) == data

\* update(index, value) on object o, zero-based index.  An index within the
\* contents replaces that element.  What an index outside the contents does
\* is not defined by anything in the repository's sources at hand: the
\* access is recorded in fault and the run is not followed further.
RenderVector_update(o, index, value) ==
    IF index < Len(objects[o])
    THEN /\ objects' = [objects EXCEPT ![o][index + 1] = value]
         /\ fault' = fault
    ELSE /\ objects' = objects
         /\ fault' = <<[obj |-> o, index |-> index]>>

\* data() on object o: a full copy of the contents.
RenderVector_data(o) == objects[o]

\* What render_vector_data returns for handle h in the current state.
DataOf(h) == RenderVector_data(xptr[h])

\* What the host sees in a result r it holds.
HostView(r) == IF r.shared THEN objects[r.obj] ELSE r.value

\* The handles the host holds.
Live == 1..Len(xptr)

\* The number of elements of the vectors created so far.
RECURSIVE Cells(_)
Cells(n) == IF n = 0 THEN 0 ELSE Len(orig[n]) + Cells(n - 1)

\* The run has room for one more vector, of this length.
Room(data) == Len(xptr) < MaxHandles /\ Cells(Len(orig)) + Len(data) <= MaxCells

Init ==
    /\ xptr = <<>>
    /\ objects = <<>>
    /\ orig = <<>>
    /\ written = <<>>
    /\ ret = <<>>
    /\ fault = <<>>
    /\ raised = FALSE

\* -------------------------------------------------------------- bindings
\* create_render_vector taking the data through a float vector.
create_render_vector_float(data) ==
    /\ fault = <<>>
    /\ Room(data)
    /\ objects' = Append(objects, RenderVector_new([i \in 1..Len(data) |-> ToFloat(data[i])]))
    /\ xptr' = Append(xptr, Len(objects) + 1)
    /\ orig' = Append(orig, data)
    /\ written' = Append(written, [i \in 1..Len(data) |-> {}])
    /\ raised' = FALSE
    /\ UNCHANGED <<ret, fault>>

\* create_render_vector that never builds a zero-length vector.
create_render_vector_nonempty(data) ==
    /\ fault = <<>>
    /\ Room(data)
    /\ objects' = Append(objects, RenderVector_new(IF data = <<>> THEN <<0>> ELSE data))
    /\ xptr' = Append(xptr, Len(objects) + 1)
    /\ orig' = Append(orig, data)
    /\ written' = Append(written, [i \in 1..Len(data) |-> {}])
    /\ raised' = FALSE
    /\ UNCHANGED <<ret, fault>>

\* create_render_vector that loses the last element of the data.
create_render_vector_short(data) ==
    /\ fault = <<>>
    /\ Room(data)
    /\ objects' = Append(objects, RenderVector_new(
                      IF data = <<>> THEN data ELSE SubSeq(data, 1, Len(data) - 1)))
    /\ xptr' = Append(xptr, Len(objects) + 1)
    /\ orig' = Append(orig, data)
    /\ written' = Append(written, [i \in 1..Len(data) |-> {}])
    /\ raised' = FALSE
    /\ UNCHANGED <<ret, fault>>

\* create_render_vector that hands every handle the first object made.
create_render_vector_static(data) ==
    /\ fault = <<>>
    /\ Room(data)
    /\ objects' = Append(objects, RenderVector_new(data))
    /\ xptr' = Append(xptr, 1)
    /\ orig' = Append(orig, data)
    /\ written' = Append(written, [i \in 1..Len(data) |-> {}])
    /\ raised' = FALSE
    /\ UNCHANGED <<ret, fault>>

\* create_render_vector(data): a new RenderVector(data) behind a new XPtr.
create_render_vector(data) ==
    /\ fault = <<>>
    /\ Room(data)
    /\ objects' = Append(objects, RenderVector_new(data))
    /\ xptr' = Append(xptr, Len(objects) + 1)
    /\ orig' = Append(orig, data)
    /\ written' = Append(written, [i \in 1..Len(data) |-> {}])
    /\ raised' = FALSE
    /\ UNCHANGED <<ret, fault>>

\* The host's result after an update through handle v: a result read from v
\* is no longer a read-back of the current contents.
RetAfterUpdate(v) ==
    IF ret # <<>> /\ ret[1].handle = v
    THEN <<[ret[1] EXCEPT !.reads = 0]>>
    ELSE ret

\* The history after an update through handle v.
WrittenAfterUpdate(v, index, value) ==
    IF index < Len(written[v])
    THEN [written EXCEPT ![v][index + 1] = {value}]
    ELSE written

\* render_vector_update treating the index as one-based.
render_vector_update_onebased(v, index, value) ==
    /\ fault = <<>>
    /\ v \in Live
    /\ RenderVector_update(xptr[v], index + 1, ToFloat(value))
    /\ written' = WrittenAfterUpdate(v, index, value)
    /\ ret' = RetAfterUpdate(v)
    /\ raised' = FALSE
    /\ UNCHANGED <<xptr, orig>>

\* render_vector_update updating a copy of the object.
render_vector_update_oncopy(v, index, value) ==
    /\ fault = <<>>
    /\ v \in Live
    /\ UNCHANGED <<objects, fault>>
    /\ written' = WrittenAfterUpdate(v, index, value)
    /\ ret' = RetAfterUpdate(v)
    /\ raised' = FALSE
    /\ UNCHANGED <<xptr, orig>>

\* render_vector_update checking the index itself and raising an error.
render_vector_update_checked(v, index, value) ==
    /\ fault = <<>>
    /\ v \in Live
    /\ IF index < Len(objects[xptr[v]])
       THEN /\ RenderVector_update(xptr[v], index, ToFloat(value))
            /\ raised' = FALSE
       ELSE /\ UNCHANGED <<objects, fault>>
            /\ raised' = TRUE
    /\ written' = WrittenAfterUpdate(v, index, value)
    /\ ret' = RetAfterUpdate(v)
    /\ UNCHANGED <<xptr, orig>>

\* render_vector_update(v, index, value): v->update(index, value), value
\* having been converted to the float parameter.
render_vector_update(v, index, value) ==
    /\ fault = <<>>
    /\ v \in Live
    /\ RenderVector_update(xptr[v], index, ToFloat(value))
    /\ written' = WrittenAfterUpdate(v, index, value)
    /\ ret' = RetAfterUpdate(v)
    /\ raised' = FALSE
    /\ UNCHANGED <<xptr, orig>>

\* The number of consecutive read-backs of handle v, this one included.
ReadsAfterData(v) ==
    IF ret # <<>> /\ ret[1].handle = v /\ ret[1].reads > 0
    THEN (IF ret[1].reads < MaxReads THEN ret[1].reads + 1 ELSE MaxReads)
    ELSE 1

\* render_vector_data handing out the object's own storage.
render_vector_data_shared(v) ==
    /\ fault = <<>>
    /\ v \in Live
    /\ ret' = <<[handle |-> v, obj |-> xptr[v], value |-> RenderVector_data(xptr[v]),
                 shared |-> TRUE, reads |-> ReadsAfterData(v)]>>
    /\ raised' = FALSE
    /\ UNCHANGED <<xptr, objects, orig, written, fault>>

\* render_vector_data moving the contents out of the object.
render_vector_data_move(v) ==
    /\ fault = <<>>
    /\ v \in Live
    /\ ret' = <<[handle |-> v, obj |-> xptr[v], value |-> RenderVector_data(xptr[v]),
                 shared |-> FALSE, reads |-> ReadsAfterData(v)]>>
    /\ objects' = [objects EXCEPT ![xptr[v]] = <<>>]
    /\ raised' = FALSE
    /\ UNCHANGED <<xptr, orig, written, fault>>

\* render_vector_data(v): return v->data().
render_vector_data(v) ==
    /\ fault = <<>>
    /\ v \in Live
    /\ ret' = <<[handle |-> v, obj |-> xptr[v], value |-> RenderVector_data(xptr[v]),
                 shared |-> FALSE, reads |-> ReadsAfterData(v)]>>
    /\ raised' = FALSE
    /\ UNCHANGED <<xptr, objects, orig, written, fault>>

Next ==
    \/ \E data \in InputData : create_render_vector(data)
    \/ \E v \in Handles, index \in Indices, value \in UpdateValues :
          render_vector_update(v, index, value)
    \/ \E v \in Handles : render_vector_data(v)

Spec == Init /\ [][Next]_vars

TypeOK ==
    /\ Len(xptr) <= MaxHandles
    /\ Len(objects) = Len(xptr)
    /\ \A h \in Live : xptr[h] \in 1..Len(objects)
    /\ raised \in BOOLEAN

\* ------------------------------------------------------------ properties
\* The handle of the host's result, and what the host sees in it.
RetHandle == ret[1].handle
RetView == HostView(ret[1])

\* The host holds a read-back of the current contents of its handle.
FreshRet == ret # <<>> /\ ret[1].reads > 0

\* No in-range update has gone through handle h.
NeverUpdated(h) == \A i \in 1..Len(written[h]) : written[h][i] = {}

TheValue(S) == CHOOSE x \in S : TRUE

\* The floats within Window of x are all in FloatsNear(x).
Window == 4
FloatsNear(x) == { f \in (x - Window)..(x + Window) : IsFloat(f) }

\* r is the single-precision rounding of x: a float, no float is nearer to
\* x, and when another float is as near, r is the one with the even
\* significand.
IsRounding(r, x) ==
    /\ IsFloat(r)
    /\ \A f \in FloatsNear(x) : Abs(r - x) <= Abs(f - x)
    /\ \A f \in FloatsNear(x) :
          (f # r /\ Abs(f - x) = Abs(r - x)) => (r \div Ulp(Abs(r))) % 2 = 0

\* C1: a read-back of a handle that has had no update is the sequence the
\* handle was created from, same length and same element at every position.
C1_RoundTrip ==
    (FreshRet /\ NeverUpdated(RetHandle)) =>
        /\ Len(RetView) = Len(orig[RetHandle])
        /\ \A i \in 1..Len(RetView) : RetView[i] = orig[RetHandle][i]

C1_Witness ==
    /\ FreshRet
    /\ NeverUpdated(RetHandle)
    /\ Len(orig[RetHandle]) >= 2
    /\ RetView = orig[RetHandle]

\* C2 as stated: an in-range update (h, i, v) makes the read-back equal to
\* the previous one with v at position i.
C2_AsStated ==
    [][\A h \in Handles, i \in Indices, v \in UpdateValues :
          (render_vector_update(h, i, v) /\ i < Len(DataOf(h))) =>
              DataOf(h)' = [DataOf(h) EXCEPT ![i + 1] = v]]_vars

\* C2 amended: an in-range update (h, i, v) makes the read-back equal to the
\* previous one with the single-precision rounding of v at position i.
C2_UpdateSetsElement ==
    [][\A h \in Handles, i \in Indices, v \in UpdateValues :
          (render_vector_update(h, i, v) /\ i < Len(DataOf(h))) =>
              DataOf(h)' = [DataOf(h) EXCEPT ![i + 1] = ToFloat(v)]]_vars

C2_Witness ==
    /\ FreshRet
    /\ Len(RetView) >= 2
    /\ written[RetHandle][2] = {5}
    /\ written[RetHandle][1] = {}
    /\ RetView = <<orig[RetHandle][1], 5>>

\* C3: a read-back leaves every vector as it was, and a read-back that
\* follows a read-back of the same handle with no update in between gives
\* the host the same sequence.
C3_ReadIsPure ==
    [][\A h \in Handles :
          render_vector_data(h) =>
              /\ objects' = objects
              /\ (FreshRet /\ RetHandle = h) => RetView' = RetView]_vars

C3_Witness ==
    /\ ret # <<>>
    /\ ret[1].reads >= 2
    /\ ~NeverUpdated(RetHandle)
    /\ RetView = DataOf(RetHandle)

\* C4: a handle created from the empty sequence owns an object, and its
\* read-back is the empty sequence.
C4_EmptyVector ==
    \A h \in Live :
        orig[h] = <<>> =>
            /\ xptr[h] \in 1..Len(objects)
            /\ DataOf(h) = <<>>
            /\ (FreshRet /\ RetHandle = h) => RetView = <<>>

C4_Witness ==
    /\ FreshRet
    /\ orig[RetHandle] = <<>>
    /\ RetView = <<>>

ExpectedAsStated(h) ==
    [i \in 1..Len(orig[h]) |->
        IF written[h][i] = {} THEN orig[h][i] ELSE TheValue(written[h][i])]

\* C8 as stated.
C8_AsStated ==
    (FreshRet /\ fault = <<>>) => RetView = ExpectedAsStated(RetHandle)

\* What is expected of handle h: the single-precision rounding of the last
\* value updated at every updated index, the original element elsewhere.
Expected(h) ==
    [i \in 1..Len(orig[h]) |->
        IF written[h][i] = {} THEN orig[h][i] ELSE ToFloat(TheValue(written[h][i]))]

\* C8 amended: after in-range updates a read-back is the original sequence
\* with, at every updated index, the single-precision rounding of the value
\* of the last update to that index.
C8_LastWriteWins ==
    (FreshRet /\ fault = <<>>) => RetView = Expected(RetHandle)

C8_Witness ==
    /\ FreshRet
    /\ fault = <<>>
    /\ Len(RetView) >= 2
    /\ written[RetHandle][1] = {5}
    /\ written[RetHandle][2] = {16777219}
    /\ RetView[1] = 5

\* C9: after in-range updates and read-backs the length of every vector,
\* and of the read-back the host holds, is the length of the sequence the
\* handle was created from.
C9_LengthFixed ==
    fault = <<>> =>
        /\ \A h \in Live : Len(DataOf(h)) = Len(orig[h])
        /\ ret # <<>> => Len(RetView) = Len(orig[RetHandle])

C9_Witness ==
    /\ FreshRet
    /\ fault = <<>>
    /\ ~NeverUpdated(RetHandle)
    /\ Len(RetView) >= 2

\* C10: an updated element read back is the single-precision rounding of
\* the value supplied, and it is the value supplied exactly when that value
\* is a float.
C10_FloatNarrowing ==
    (FreshRet /\ fault = <<>>) =>
        \A i \in 1..Len(RetView) :
            written[RetHandle][i] # {} =>
                LET x == TheValue(written[RetHandle][i])
                IN  /\ IsRounding(RetView[i], x)
                    /\ (RetView[i] = x) <=> IsFloat(x)

C10_Witness ==
    /\ FreshRet
    /\ fault = <<>>
    /\ \E i \in 1..Len(RetView) :
          written[RetHandle][i] = {16777219} /\ RetView[i] = 16777220
    /\ \E i \in 1..Len(RetView) :
          written[RetHandle][i] = {5} /\ RetView[i] = 5

=============================================================================
